---- MODULE Spec2Model ----
(***************************************************************************)
(* The record projector of custom_addons/blinds_sale/controllers/          *)
(* api_connector.py: DynamicOdooCall.serialize_record and                  *)
(* DynamicOdooCall.process_dict_result, over a small store.                *)
(*                                                                         *)
(* call_anything projects the records of whatever model the request names. *)
(* The store here holds two custom models, x_order (one record) and        *)
(* x_partner (two records), with every shape of relation the projector     *)
(* tells apart: two many2one fields to one comodel, a many2one of a model  *)
(* to itself, the one2many inverses of both, and a binary field.  The ids  *)
(* of the two models overlap (x_order 1, x_partner 1).  The many2one       *)
(* values are free, so the stores hold cycles of length 1, 2 and 3 and     *)
(* diamonds; a one2many holds the records whose inverse many2one points    *)
(* at the record, in id order, as the ORM keeps it.                        *)
(***************************************************************************)
EXTENDS Integers, Sequences, FiniteSets, TLC

VARIABLES
    db,      \* stored field values: db[record][field], many2one as the target id (0: empty)
    exists,  \* the records browse(id).exists() finds
    flat,    \* the dict a search_read returned, with the record it was read from
    out,     \* the last projector call: its arguments and the value it returned
    unlinks, \* the number of unlink calls made
    stack    \* the frames of a serialize_record call that is running, innermost last

\* the projector's state
projvars == <<db, exists, flat, out, unlinks, stack>>

\* The REST API of api/apps in front of Odoo: its Django cache, its local
\* users, the sessions Odoo holds, and the request being answered.
VARIABLES
    session_cache,   \* cache["odoo_session_{db}_{username}"]: <<>> or <<session_id>>
    login_attempts,  \* cache["login_attempts_{username}"]: <<>> or <<count>>
    odoo_sessions,   \* the session ids Odoo accepts
    issued,          \* the number of sessions Odoo has issued
    local_password,  \* CustomUser.password by username: <<>> (no such user) or <<password>>
    resp             \* the request being answered, with its response

authvars == <<session_cache, login_attempts, odoo_sessions, issued, local_password, resp>>

\* /custom_api/call answering a search
VARIABLES
    page             \* the last search request with a limit, and the response to it

pagevars == <<page>>

\* what Odoo stores of the records the views of api/apps/invoice read and write
VARIABLES
    proofs           \* payment.proof by id: exists, state, proof_image, amount

proofvars == <<proofs>>

\* Odoo's invoices (account.move) and payments (account.payment)
VARIABLES
    invoices,       \* invoice id -> [state, amount_residual]
    payments        \* the payments created, in order: payment id = position

invoicevars == <<invoices, payments>>

\* Odoo's sale orders and the users' debt (res.users)
VARIABLES
    sale_orders,    \* the sale orders created, in order
    res_users       \* username -> [sale_debt, sale_debt_limit]

ordervars == <<sale_orders, res_users>>

apivars == <<authvars, pagevars, proofvars, invoicevars, ordervars>>

\* what the handlers of one part leave alone
BesidesAuth == <<projvars, pagevars, proofvars, invoicevars, ordervars>>
BesidesPage == <<projvars, authvars, proofvars, invoicevars, ordervars>>

\* of the API's own state a view changes the response alone, once its client
\* holds a session Odoo accepts
SessionKept == <<session_cache, login_attempts, odoo_sessions, issued, local_password>>
BesidesProofs == <<projvars, pagevars, invoicevars, ordervars, SessionKept>>
BesidesInvoices == <<projvars, pagevars, proofvars, ordervars, SessionKept>>
BesidesOrders == <<projvars, pagevars, proofvars, invoicevars, SessionKept>>

vars == <<projvars, apivars>>

\* ------------------------------------------------------------------ bounds

MaxDepth == 2       \* the largest depth a caller passes
MaxNegDepth == 2    \* the most negative depth a caller passes is -MaxNegDepth
MaxUnlink == 1      \* unlink calls per behaviour

Depths == (0 - MaxNegDepth)..MaxDepth

\* ------------------------------------------------------------------ schema

Order == "x_order"
Partner == "x_partner"

Rec(m, i) == [model |-> m, id |-> i]

OrderIds == {1}
PartnerIds == {1, 2}

Records == {Rec(Order, i) : i \in OrderIds} \cup {Rec(Partner, i) : i \in PartnerIds}

IdsOf(m) == IF m = Order THEN OrderIds ELSE PartnerIds

\* record._fields, in the order the registry iterates them
FieldsOf(m) ==
    IF m = Order
    THEN <<"id", "name", "display_name", "partner_id", "partner_invoice_id">>
    ELSE <<"id", "name", "display_name", "image_1920", "parent_id", "child_ids", "order_ids">>

FieldNames(m) == {FieldsOf(m)[i] : i \in 1..Len(FieldsOf(m))}

\* field.type
FieldType(m, f) ==
    CASE f = "id" -> "integer"
      [] f \in {"name", "display_name"} -> "char"
      [] f = "image_1920" -> "binary"
      [] f \in {"partner_id", "partner_invoice_id", "parent_id"} -> "many2one"
      [] f \in {"child_ids", "order_ids"} -> "one2many"
      [] OTHER -> "none"

\* field.comodel_name
Comodel(m, f) == IF f = "order_ids" THEN Order ELSE Partner

\* the many2one a one2many is the inverse of
InverseName(f) == IF f = "child_ids" THEN "parent_id" ELSE "partner_id"

BasicTypes == {"char", "text", "float", "integer", "boolean", "monetary", "date",
               "datetime", "selection"}

\* ------------------------------------------------------------------ values

\* JSON values and the Python values that are not JSON (bytes), tagged
Null == [t |-> "null"]
False == [t |-> "false"]
JInt(i) == [t |-> "int", v |-> i]
JStr(s) == [t |-> "str", v |-> s]
JBytes(s) == [t |-> "bytes", v |-> s]
JObj(f) == [t |-> "obj", v |-> f]
JList(s) == [t |-> "list", v |-> s]

EmptyDict == [k \in {} |-> Null]

\* the text of every string value is a triple, so that any two compare
ImageText == <<"image", "aW1n", 0>>

NameOf(r) == JStr(<<"name", r.model, r.id>>)
DisplayNameOf(r) == JStr(<<"display_name", r.model, r.id>>)

\* ------------------------------------------------------------------ the store

RECURSIVE SortedIds(_)
SortedIds(S) ==
    IF S = {} THEN <<>>
    ELSE LET lo == CHOOSE i \in S : \A j \in S : i <= j
         IN <<lo>> \o SortedIds(S \ {lo})

\* record[field_name]: an empty recordset has id 0
Read(record, f) ==
    LET m == record.model
        type == FieldType(m, f)
    IN CASE f = "id" -> JInt(record.id)
         [] f = "name" -> NameOf(record)
         [] f = "display_name" -> DisplayNameOf(record)
         [] type = "binary" -> db[record][f]
         [] type = "many2one" -> Rec(Comodel(m, f), db[record][f])
         [] type = "one2many" ->
                LET co == Comodel(m, f)
                    ids == {i \in IdsOf(co) :
                               /\ Rec(co, i) \in exists
                               /\ db[Rec(co, i)][InverseName(f)] = record.id}
                IN [k \in 1..Cardinality(ids) |-> Rec(co, SortedIds(ids)[k])]

\* bool(value) of a recordset
Truthy(rs) == rs.id # 0

\* ------------------------------------------------------------------ serialize_record

\* relation_fields.get(field_name): None is "every field"
AllFields == [all |-> TRUE, names |-> {}]
Only(names) == [all |-> FALSE, names |-> names]
Get(relation_fields, f) ==
    IF f \in DOMAIN relation_fields THEN Only(relation_fields[f]) ELSE AllFields

Skipped_never(allowed_fields, f) == FALSE

\* allowed_fields is not None and field_name not in allowed_fields
Skipped(allowed_fields, f) == ~allowed_fields.all /\ f \notin allowed_fields.names

\* record_key = f"{record._name}_{record.id}"
record_key(record) == <<record.model, record.id>>

\* {"id": record.id, "name": record.display_name}
ShortForm(record) == JObj("id" :> JInt(record.id) @@ "name" :> DisplayNameOf(record))

Expands_always(depth) == TRUE
Expands_at_zero(depth) == depth >= 0
Expands_nonzero(depth) == depth # 0

\* the test `depth > 0` that guards both nested calls
Expands(depth) == depth > 0

OnPath_never(record, visited) == FALSE

\* record_key in visited
OnPath(record, visited) == record_key(record) \in visited

AfterNestedCall_shared(own, callee) == callee

\* visited=visited.copy(): the callee adds to a copy, so after the call the
\* caller's set holds what it held before
AfterNestedCall(own, callee) == own

\* value.decode() if value else ""
Decode(value) ==
    IF value.t = "bytes" /\ value.v[2] # "" THEN JStr(value.v) ELSE JStr(<<"image", "", 0>>)

RECURSIVE serialize_record(_, _, _, _, _)
RECURSIVE SerializeFields(_, _, _, _, _, _, _)
RECURSIVE SerializeEach(_, _, _, _, _, _, _)

\* the list comprehension over a one2many/many2many value at depth > 0, from
\* position k on; `acc` is the list built so far
SerializeEach(value, k, depth, visited, relation_fields, nested, acc) ==
    IF k > Len(value) THEN [data |-> JList(acc), visited |-> visited]
    ELSE LET r == serialize_record(value[k], depth - 1, visited, relation_fields, nested)
         IN SerializeEach(value, k + 1, depth, AfterNestedCall(visited, r.visited),
                          relation_fields, nested, Append(acc, r.data))

\* the loop over record._fields.items() from field i on; `data` is the dict
\* built so far and `visited` the contents of this call's visited set
SerializeFields(record, i, depth, visited, relation_fields, allowed_fields, data) ==
    LET fields == FieldsOf(record.model) IN
    IF i > Len(fields) THEN [data |-> JObj(data), visited |-> visited]
    ELSE
      LET f == fields[i]
          type == FieldType(record.model, f)
          value == Read(record, f)
          nested == Get(relation_fields, f)
          step ==
            CASE Skipped(allowed_fields, f) -> [put |-> FALSE, visited |-> visited]
              [] type \in BasicTypes -> [put |-> TRUE, val |-> value, visited |-> visited]
              [] type = "many2one" ->
                    IF Truthy(value)
                    THEN IF Expands(depth)
                         THEN LET r == serialize_record(value, depth - 1, visited,
                                                        relation_fields, nested)
                              IN [put |-> TRUE, val |-> r.data,
                                  visited |-> AfterNestedCall(visited, r.visited)]
                         ELSE [put |-> TRUE, val |-> ShortForm(value), visited |-> visited]
                    ELSE [put |-> TRUE, val |-> Null, visited |-> visited]
              [] type \in {"one2many", "many2many"} ->
                    IF Expands(depth)
                    THEN LET r == SerializeEach(value, 1, depth, visited, relation_fields,
                                                nested, <<>>)
                         IN [put |-> TRUE, val |-> r.data, visited |-> r.visited]
                    ELSE [put |-> TRUE,
                          val |-> JList([k \in 1..Len(value) |-> ShortForm(value[k])]),
                          visited |-> visited]
              [] type = "binary" -> [put |-> TRUE, val |-> Decode(value), visited |-> visited]
              [] OTHER -> [put |-> FALSE, visited |-> visited]
      IN SerializeFields(record, i + 1, depth, step.visited, relation_fields, allowed_fields,
                         IF step.put THEN (f :> step.val) @@ data ELSE data)

\* serialize_record(record, depth, visited, relation_fields, allowed_fields):
\* the dict returned, and the contents of the visited set when it returns
serialize_record(record, depth, visited, relation_fields, allowed_fields) ==
    IF ~Truthy(record) THEN [data |-> JObj(EmptyDict), visited |-> visited]
    ELSE IF OnPath(record, visited)
    THEN [data |-> ShortForm(record), visited |-> visited]
    ELSE SerializeFields(record, 1, depth, visited \cup {record_key(record)},
                         relation_fields, allowed_fields, EmptyDict)

\* a top-level call: visited is None, so a new set
Serialize(record, depth, relation_fields, allowed_fields) ==
    serialize_record(record, depth, {}, relation_fields, allowed_fields).data

\* ------------------------------------------------------------------ process_dict_result

\* what search_read/read returns for one record: a many2one as [id, display_name]
\* or False, a one2many/many2many as the list of ids, the other fields as stored
Flatten(record) ==
    LET m == record.model IN
    JObj([f \in FieldNames(m) |->
            LET type == FieldType(m, f)
                value == Read(record, f)
            IN CASE type = "many2one" ->
                        IF Truthy(value)
                        THEN JList(<<JInt(value.id), DisplayNameOf(value)>>)
                        ELSE False
                 [] type = "one2many" -> JList([k \in 1..Len(value) |-> JInt(value[k].id)])
                 [] OTHER -> value])

\* bool(value) of a value of the flat dict
PyTruthy(value) ==
    CASE value.t = "false" -> FALSE
      [] value.t = "null" -> FALSE
      [] value.t = "list" -> Len(value.v) > 0
      [] value.t = "int" -> value.v # 0
      [] OTHER -> TRUE

\* request.env[field.comodel_name].browse(record_id).exists()
Exists(record) == record \in exists

\* the many2one branch: value is [id, name]
ExpandMany2one(value, comodel, depth, relation_fields, allowed_fields) ==
    LET related_record == Rec(comodel, value.v[1].v) IN
    IF Exists(related_record)
    THEN Serialize(related_record, depth - 1, relation_fields, allowed_fields)
    ELSE Null

\* the ids of `value` from position k on whose record exists, in order
RECURSIVE ExistingFrom(_, _, _)
ExistingFrom(value, comodel, k) ==
    IF k > Len(value.v) THEN <<>>
    ELSE (IF Exists(Rec(comodel, value.v[k].v)) THEN <<Rec(comodel, value.v[k].v)>> ELSE <<>>)
         \o ExistingFrom(value, comodel, k + 1)

\* the one2many/many2many branch: value is a list of ids
ExpandX2many(value, comodel, depth, relation_fields, allowed_fields) ==
    LET related_records == ExistingFrom(value, comodel, 1) IN
    JList([k \in 1..Len(related_records) |->
              Serialize(related_records[k], depth - 1, relation_fields, allowed_fields)])

\* process_dict_result(data_dict, model_obj, depth, relation_fields)
process_dict_result(data_dict, model, depth, relation_fields) ==
    IF depth <= 0 THEN data_dict
    ELSE JObj([field_name \in DOMAIN data_dict.v |->
            LET value == data_dict.v[field_name]
                type == FieldType(model, field_name)
                allowed_fields == Get(relation_fields, field_name)
            IN IF field_name \notin FieldNames(model) THEN value
               ELSE IF type = "many2one" /\ PyTruthy(value)
               THEN IF value.t = "list" /\ Len(value.v) >= 1
                    THEN ExpandMany2one(value, Comodel(model, field_name), depth,
                                        relation_fields, allowed_fields)
                    ELSE value
               ELSE IF type \in {"one2many", "many2many"} /\ PyTruthy(value)
               THEN IF value.t = "list"
                    THEN ExpandX2many(value, Comodel(model, field_name), depth,
                                      relation_fields, allowed_fields)
                    ELSE value
               ELSE value])

\* ------------------------------------------------------------------ the callers' inputs

\* the relation_fields dicts a request carries
RelationFieldsChoices ==
    { EmptyDict,
      "partner_id" :> {"id", "name"},
      "partner_id" :> {"name", "parent_id", "order_ids"} @@ "parent_id" :> {"image_1920"}
          @@ "order_ids" :> {"partner_invoice_id"} }

NoCall == [op |-> "none"]

\* ------------------------------------------------------------------ reading an output

RelationFieldsOf(m) ==
    {f \in FieldNames(m) : FieldType(m, f) \in {"many2one", "one2many", "many2many"}}

\* The nested objects of an output, each with the record it stands for.  A site is
\*   rec     the record the object was produced for
\*   val     the object
\*   path    the fields (and list positions) leading to it from the root
\*   hops    the number of relation hops from the root
\*   budget  the root depth minus hops
\*   anc     the keys of the records on the path above it
\*   via     the relation field it was reached through ("" at the root)
Site(rec, val, path, hops, budget, anc, via) ==
    [rec |-> rec, val |-> val, path |-> path, hops |-> hops, budget |-> budget,
     anc |-> anc, via |-> via]

RECURSIVE SitesFrom(_)
SitesFrom(s) ==
    {s} \cup
    UNION { LET value == Read(s.rec, f)
                v == s.val.v[f]
                anc == s.anc \cup {<<s.rec.model, s.rec.id>>}
            IN IF FieldType(s.rec.model, f) = "many2one"
               THEN IF Truthy(value) /\ v.t = "obj"
                    THEN SitesFrom(Site(value, v, Append(s.path, <<f, 0>>), s.hops + 1,
                                        s.budget - 1, anc, f))
                    ELSE {}
               ELSE IF v.t = "list"
                    THEN UNION { IF v.v[k].t = "obj"
                                 THEN SitesFrom(Site(value[k], v.v[k], Append(s.path, <<f, k>>),
                                                     s.hops + 1, s.budget - 1, anc, f))
                                 ELSE {}
                                 : k \in 1..(IF Len(v.v) < Len(value) THEN Len(v.v) ELSE Len(value)) }
                    ELSE {}
            : f \in RelationFieldsOf(s.rec.model) \cap DOMAIN s.val.v }

\* the sites of the last serialize_record output
SerializeSites == SitesFrom(Site(out.record, out.result, <<>>, 0, out.depth, {}, ""))

\* the nested calls process_dict_result(depth >= 1) made: each starts a new visited set
ProcessRoots ==
    LET m == out.record.model
        rels == {f \in RelationFieldsOf(m) \cap DOMAIN out.result.v : PyTruthy(flat.data.v[f])}
    IN UNION { LET v == out.result.v[f]
                   co == Comodel(m, f)
               IN IF FieldType(m, f) = "many2one"
                  THEN IF v.t = "obj"
                       THEN {Site(Rec(co, flat.data.v[f].v[1].v), v, <<<<f, 0>>>>, 1,
                                  out.depth - 1, {}, f)}
                       ELSE {}
                  ELSE LET related == ExistingFrom(flat.data.v[f], co, 1)
                       IN { Site(related[k], v.v[k], <<<<f, k>>>>, 1, out.depth - 1, {}, f)
                            : k \in 1..(IF Len(v.v) < Len(related) THEN Len(v.v)
                                        ELSE Len(related)) }
               : f \in rels }

ProcessSites == IF out.depth <= 0 THEN {} ELSE UNION {SitesFrom(s) : s \in ProcessRoots}

Sites ==
    CASE out.op = "serialize" -> SerializeSites
      [] out.op = "process" -> ProcessSites
      [] OTHER -> {}

OnOwnPath(s) == <<s.rec.model, s.rec.id>> \in s.anc

\* the keys a full object of `rec` reached through `via` carries
KeysOf(rec, relation_fields, via) ==
    IF via \in DOMAIN relation_fields
    THEN FieldNames(rec.model) \cap relation_fields[via]
    ELSE FieldNames(rec.model)

\* `val` is the full object of `rec`: every kept field is there with its own
\* value, every related record with an object of its own
IsFull(val, rec, keys) ==
    /\ val.t = "obj"
    /\ DOMAIN val.v = keys
    /\ \A f \in keys :
          LET type == FieldType(rec.model, f)
              value == Read(rec, f)
          IN CASE type \in BasicTypes -> val.v[f] = value
               [] type = "many2one" ->
                      IF Truthy(value) THEN val.v[f].t = "obj" ELSE val.v[f] = Null
               [] type = "one2many" ->
                      /\ val.v[f].t = "list"
                      /\ Len(val.v[f].v) = Len(value)
                      /\ \A k \in 1..Len(value) : val.v[f].v[k].t = "obj"
               [] OTHER -> val.v[f].t = "str"

\* the number of objects nested in one another in a value
RECURSIVE Nesting(_)
Max(S) == IF S = {} THEN 0 ELSE CHOOSE x \in S : \A y \in S : y <= x
Nesting(val) ==
    CASE val.t = "obj" -> 1 + Max({Nesting(val.v[f]) : f \in DOMAIN val.v})
      [] val.t = "list" -> Max({Nesting(val.v[k]) : k \in 1..Len(val.v)})
      [] OTHER -> 0

\* ------------------------------------------------------------------ OdooRESTClient

Usernames == {"ali", "bek"}

\* the passwords a login request carries; Odoo accepts "right" for either user
Passwords == {"", "right", "wrong"}
OdooAccepts(username, password) == username \in Usernames /\ password = "right"

MaxSessions == 2    \* the sessions Odoo issues in a behaviour

NoEntry == <<>>

\* cache.get(key, default)
CacheGet(entry, default) == IF entry = NoEntry THEN default ELSE entry[1]

\* What a handler works on: the session cache, the sessions Odoo accepts, and
\* the requests the handler has sent to Odoo so far, in order.
World == [cache |-> session_cache, sessions |-> odoo_sessions, issued |-> issued,
          log |-> <<>>]

\* a request to Odoo: the route, and the login or the session cookie it carries
Request(req, username, password, session_id) ==
    [req |-> req, username |-> username, password |-> password, session_id |-> session_id]

Sent(w, request) == [w EXCEPT !.log = Append(@, request)]

\* self.username, self.password, self.session_id (0: None)
Client(username, password, session_id) ==
    [username |-> username, password |-> password, session_id |-> session_id]

\* what a method hands back: whether it raised, the client and the world after it
Returned(client, w) == [raised |-> FALSE, client |-> client, w |-> w]
Raised(client, w) == [raised |-> TRUE, client |-> client, w |-> w]

\* _login: POST /web/session/authenticate with self.username and self.password;
\* on success the session is kept in the client and in the cache
OdooLogin(w, client) ==
    LET sent == Sent(w, Request("authenticate", client.username, client.password, 0)) IN
    IF OdooAccepts(client.username, client.password)
    THEN LET session_id == w.issued + 1
         IN Returned([client EXCEPT !.session_id = session_id],
                     [sent EXCEPT !.issued = session_id,
                                  !.sessions = @ \cup {session_id},
                                  !.cache[client.username] = <<session_id>>])
    ELSE Raised(client, sent)

\* __init__ with use_cache=True: a cached session is taken as it is, without a
\* login; without one the client logs in, if it was given a password
NewClient(w, username, password) ==
    LET cached_session == w.cache[username] IN
    IF cached_session # NoEntry
    THEN Returned(Client(username, password, cached_session[1]), w)
    ELSE IF password # ""
    THEN OdooLogin(w, Client(username, password, 0))
    ELSE Raised(Client(username, password, 0), w)

\* get_odoo_client(username, password)
get_odoo_client(w, username, password) == NewClient(w, username, password)

\* get_odoo_client_with_cached_session(username): raised stands for the 401
\* Response it returns in place of a client
get_odoo_client_with_cached_session(w, username) ==
    IF w.cache[username] = NoEntry
    THEN Raised(Client(username, "", 0), w)
    ELSE get_odoo_client(w, username, "")

\* _refresh_session: cache.delete(self.cache_key), then _login
RefreshSession(w, client) ==
    OdooLogin([w EXCEPT !.cache[client.username] = NoEntry], client)

\* Odoo answers 401 / "invalid session" to a request under a session it does
\* not accept
SessionExpired(w, client) == client.session_id \notin w.sessions

\* call: POST /custom_api/call; on 401 or "invalid session" the session is
\* refreshed and the request sent again
ClientCall(w, client) ==
    LET first == Sent(w, Request("call", client.username, "", client.session_id)) IN
    IF SessionExpired(first, client)
    THEN LET refreshed == RefreshSession(first, client)
         IN IF refreshed.raised THEN refreshed
            ELSE Returned(refreshed.client,
                          Sent(refreshed.w, Request("call", client.username, "",
                                                      refreshed.client.session_id)))
    ELSE Returned(client, first)

\* the outcomes of POST /web/session/destroy: Odoo drops the session, Odoo
\* answers with an error status, or the request raises (timeout, no connection)
DestroyOutcomes == {"destroyed", "refused", "failed"}

\* logout: the cache entry is deleted unless the request raised
ClientLogout(w, client, outcome) ==
    LET sent == Sent(w, Request("destroy", client.username, "", client.session_id))
        after == IF outcome = "destroyed"
                 THEN [sent EXCEPT !.sessions = @ \ {client.session_id}]
                 ELSE sent
    IN IF outcome = "failed"
       THEN Returned(client, after)
       ELSE Returned(client, [after EXCEPT !.cache[client.username] = NoEntry])

\* ------------------------------------------------------------------ DeliveryPersonLoginAPIView

MaxAttempts == 5    \* attempts >= 5

TooMany_after(attempts) == attempts > MaxAttempts

\* the rate limit check on the count read from the cache
TooMany(attempts) == attempts >= MaxAttempts

NoRequest == [op |-> "none"]

\* what a handler leaves: the response's status, whether it carries JWT tokens,
\* the world, and the entries of login_attempts and local_password for the user
Answer(status, tokens, w, attempts_entry, password_entry) ==
    [status |-> status, tokens |-> tokens, w |-> w, attempts |-> attempts_entry,
     password |-> password_entry]

\* DeliveryPersonLoginAPIView.post
LoginPost(username, password) ==
    LET entry == login_attempts[username]
        attempts == CacheGet(entry, 0)
        failed == <<attempts + 1>>
        kept == local_password[username]
    IN IF TooMany(attempts) THEN Answer(429, FALSE, World, entry, kept)
       ELSE IF password = "" THEN Answer(400, FALSE, World, entry, kept)
       ELSE LET odoo == get_odoo_client(World, username, password) IN
            IF odoo.raised THEN Answer(403, FALSE, odoo.w, failed, kept)
            ELSE LET users == ClientCall(odoo.w, odoo.client) IN
                 IF users.raised THEN Answer(500, FALSE, users.w, failed, kept)
                 ELSE Answer(200, TRUE, users.w, NoEntry, <<password>>)

\* a view behind IsAuthenticated: the client comes from the cached session and
\* makes its first call
ViewGet(username) ==
    LET kept == local_password[username]
        entry == login_attempts[username]
        odoo == get_odoo_client_with_cached_session(World, username)
    IN IF odoo.raised THEN Answer(401, FALSE, odoo.w, entry, kept)
       ELSE LET result == ClientCall(odoo.w, odoo.client) IN
            IF result.raised THEN Answer(500, FALSE, result.w, entry, kept)
            ELSE Answer(200, FALSE, result.w, entry, kept)

AuthInit ==
    /\ session_cache = [u \in Usernames |-> NoEntry]
    /\ login_attempts = [u \in Usernames |-> NoEntry]
    /\ odoo_sessions = {}
    /\ issued = 0
    /\ local_password = [u \in Usernames |-> NoEntry]
    /\ resp = NoRequest

\* ------------------------------------------------------------------ call_anything, pagination

MaxLimit == 3       \* the largest limit a request carries
MaxOffset == 3      \* the largest offset a request carries
MaxTotal == 4       \* the most records a search matches

DefaultOffset == 4  \* data.get("offset", 4)

JBool(b) == [t |-> "bool", v |-> b]

\* a parameter of the request: <<>> when it is not given (None), or <<value>>
Limits == {NoEntry} \cup {<<n>> : n \in 1..MaxLimit}
Offsets == {NoEntry} \cup {<<n>> : n \in 0..MaxOffset}

Methods == {"search_read", "search", "read"}

\* OdooRESTClient.call building its payload: limit and offset go in together,
\* offset as 0 when it was not given
Payload(limit, offset) ==
    IF limit # NoEntry
    THEN [limit |-> limit, offset |-> <<CacheGet(offset, 0)>>]
    ELSE [limit |-> NoEntry, offset |-> NoEntry]

\* the ids of the records on the page: search(domain, offset=offset, limit=limit)
PageIds(limit, offset, total) ==
    LET last == IF limit = NoEntry THEN total
                ELSE IF offset + limit[1] < total THEN offset + limit[1] ELSE total
    IN [k \in 1..(IF last > offset THEN last - offset ELSE 0) |-> JInt(offset + k)]

\* total_count is not None and total_count > 1
ShowsCount(total_count) == total_count # NoEntry /\ total_count[1] > 1

\* call_anything on a method that searches a model of `total` matching records:
\* the response
call_anything(method, limit_given, offset_given, total) ==
    LET limit == limit_given
        offset == CacheGet(offset_given, DefaultOffset)
        paged == limit # NoEntry /\ method \in {"search_read", "search"}
        result == JList(PageIds(IF paged THEN limit ELSE NoEntry,
                                IF paged THEN offset ELSE 0, total))
        total_count == IF paged THEN <<total>> ELSE NoEntry
    IN IF ShowsCount(total_count)
       THEN "result" :> result @@ "total_count" :> JInt(total_count[1])
            @@ "limit" :> JInt(limit[1]) @@ "offset" :> JInt(offset)
            @@ "has_more" :> JBool(offset + limit[1] < total_count[1])
       ELSE "result" :> result

PageInit == page = NoCall

\* ------------------------------------------------------------------ payment proofs

ProofIds == {1, 2}

\* sale_order_id.user_id of a proof: the user whose order it belongs to
ProofOwner(proof_id) == IF proof_id = 1 THEN "ali" ELSE "bek"

ProofStates == {"draft", "submitted", "verified", "rejected", "processed"}

MaxAmount == 1      \* the largest amount of a proof

\* a request the API sends to Odoo through odoo.call
OdooCall(model, method, id, vals) ==
    [model |-> model, method |-> method, id |-> id, vals |-> vals]

NoVals == [k \in {} |-> 0]

\* search_read with domain [('id', '=', proof_id),
\* ('sale_order_id.user_id.id', '=', odoo_user_id)]: <<>> or the one record
SearchProof(username, proof_id) ==
    IF proofs[proof_id].exists /\ ProofOwner(proof_id) = username
    THEN <<[id |-> proof_id, state |-> proofs[proof_id].state,
            proof_image |-> proofs[proof_id].proof_image,
            amount |-> proofs[proof_id].amount]>>
    ELSE <<>>

\* records.write(values) on the proof
WriteProof(proof_id, vals) ==
    [proofs EXCEPT ![proof_id] =
        [f \in DOMAIN @ |-> IF f \in DOMAIN vals THEN vals[f] ELSE @[f]]]

\* records.unlink() on the proof
UnlinkProof(proof_id) == [proofs EXCEPT ![proof_id].exists = FALSE]

\* what a view leaves: the status of its response, the requests it sent to
\* Odoo, the record its first search_read returned, and the proofs after it
Done(status, calls, read, after) ==
    [status |-> status, calls |-> calls, read |-> read, proofs |-> after]

Editable_verified(state) == state \in {"draft", "submitted", "verified"}

\* proof['state'] not in ['draft', 'submitted'] refuses the update
Editable(state) == state \in {"draft", "submitted"}

\* proof['state'] != 'draft' refuses the deletion and the submission
IsDraft(state) == state = "draft"

\* the values a PUT carries, after validation: none, an amount, an image
UpdateChoices == {NoVals, "amount" :> MaxAmount, "proof_image" :> TRUE}

\* PaymentProofDetailAPIView.put.  After the write the view reads the proof
\* again with odoo.call(..., relation_fields=...), a keyword call() does not
\* take: the TypeError is caught by `except Exception`, status 500.
ProofPut(username, proof_id, update_vals) ==
    LET search == OdooCall("payment.proof", "search_read", proof_id, NoVals)
        write == OdooCall("payment.proof", "write", proof_id, update_vals)
        proof_result == SearchProof(username, proof_id)
    IN IF proof_result = <<>> THEN Done(404, <<search>>, proof_result, proofs)
       ELSE IF ~Editable(proof_result[1].state)
       THEN Done(400, <<search>>, proof_result, proofs)
       ELSE IF update_vals = NoVals THEN Done(400, <<search>>, proof_result, proofs)
       ELSE Done(500, <<search, write>>, proof_result, WriteProof(proof_id, update_vals))

\* PaymentProofDetailAPIView.delete
ProofDelete(username, proof_id) ==
    LET search == OdooCall("payment.proof", "search_read", proof_id, NoVals)
        unlink == OdooCall("payment.proof", "unlink", proof_id, NoVals)
        proof_result == SearchProof(username, proof_id)
    IN IF proof_result = <<>> THEN Done(404, <<search>>, proof_result, proofs)
       ELSE IF ~IsDraft(proof_result[1].state)
       THEN Done(400, <<search>>, proof_result, proofs)
       ELSE Done(204, <<search, unlink>>, proof_result, UnlinkProof(proof_id))

\* PaymentProofSubmitAPIView.post; it ends like put, with status 500 after the
\* write
ProofSubmit(username, proof_id) ==
    LET search == OdooCall("payment.proof", "search_read", proof_id, NoVals)
        vals == "state" :> "submitted"
        write == OdooCall("payment.proof", "write", proof_id, vals)
        proof_result == SearchProof(username, proof_id)
    IN IF proof_result = <<>> THEN Done(404, <<search>>, proof_result, proofs)
       ELSE IF ~IsDraft(proof_result[1].state)
       THEN Done(400, <<search>>, proof_result, proofs)
       ELSE IF ~proof_result[1].proof_image
       THEN Done(400, <<search>>, proof_result, proofs)
       ELSE IF proof_result[1].amount <= 0
       THEN Done(400, <<search>>, proof_result, proofs)
       ELSE Done(500, <<search, write>>, proof_result, WriteProof(proof_id, vals))

ProofInit ==
    proofs = [i \in ProofIds |->
                [exists |-> FALSE, state |-> "draft", proof_image |-> FALSE, amount |-> 0]]

\* ------------------------------------------------------------------ invoices and payments

InvoiceIds == {1, 2}

\* the user of the sale order an invoice (a payment, a sale order) with this
\* id belongs to
Owner(id) == IF id = 1 THEN "ali" ELSE "bek"

InvoiceStates == {"draft", "posted", "cancel"}

MaxResidual == 2    \* the largest outstanding amount of an invoice
MaxPayments == 2    \* the payments Odoo holds at most

\* def call(self, model, method, args=None, kwargs=None, limit=None,
\* offset=None): a call with another keyword raises TypeError
CallKeywords == {"model", "method", "args", "kwargs", "limit", "offset"}

CallAccepts(keywords) == keywords \subseteq CallKeywords

\* search_read of account.move with the domain id = invoice_id and the user's
\* ownership
SearchInvoice(username, invoice_id) ==
    IF Owner(invoice_id) = username
    THEN <<[id |-> invoice_id, state |-> invoices[invoice_id].state,
            amount_residual |-> invoices[invoice_id].amount_residual]>>
    ELSE <<>>

\* search_read of account.payment with the domain id = payment_id and the
\* ownership through reconciled_invoice_ids
SearchPayment(username, payment_id) ==
    IF /\ payment_id \in 1..Len(payments)
       /\ payments[payment_id].reconciled
       /\ Owner(payments[payment_id].invoice_id) = username
    THEN <<[id |-> payment_id, amount |-> payments[payment_id].amount]>>
    ELSE <<>>

\* what a view of invoices leaves: status, the requests sent to Odoo, the
\* record its first search_read returned, the records in the response body,
\* and Odoo's invoices and payments after it
Served(status, calls, read, body, invoices_after, payments_after) ==
    [status |-> status, calls |-> calls, read |-> read, body |-> body,
     invoices |-> invoices_after, payments |-> payments_after]

\* the view's `except Exception`, before any request was sent
Failed500 == Served(500, <<>>, <<>>, <<>>, invoices, payments)

\* InvoiceDetailAPIView.get
InvoiceGet(username, invoice_id) ==
    LET search == OdooCall("account.move", "search_read", invoice_id, NoVals)
        read == OdooCall("account.move", "read", invoice_id, NoVals)
        invoice_result == SearchInvoice(username, invoice_id)
    IN IF ~CallAccepts({"model", "method", "kwargs", "relation_fields"}) THEN Failed500
       ELSE IF invoice_result = <<>>
       THEN Served(404, <<search>>, invoice_result, <<>>, invoices, payments)
       ELSE Served(200, <<search, read>>, invoice_result, invoice_result, invoices, payments)

\* InvoicePaymentListAPIView.get: the ownership check is commented out, and
\* the domain is ('reconciled_invoice_ids', 'in', [invoice_id]) alone
InvoicePaymentsGet(username, invoice_id) ==
    LET search == OdooCall("account.payment", "search_read", invoice_id, NoVals)
        found == SelectSeq(payments,
                           LAMBDA p : p.reconciled /\ p.invoice_id = invoice_id)
    IN IF ~CallAccepts({"model", "method", "kwargs", "limit", "offset", "sudo"})
       THEN Failed500
       ELSE Served(200, <<search>>, <<>>, found, invoices, payments)

\* PaymentDetailAPIView.get
PaymentGet(username, payment_id) ==
    LET search == OdooCall("account.payment", "search_read", payment_id, NoVals)
        payment_result == SearchPayment(username, payment_id)
    IN IF ~CallAccepts({"model", "method", "kwargs"}) THEN Failed500
       ELSE IF payment_result = <<>>
       THEN Served(404, <<search>>, payment_result, <<>>, invoices, payments)
       ELSE Served(200, <<search>>, payment_result, payment_result, invoices, payments)

\* OrderDetailAPIView.get; a sale order with this id exists for each user
OrderGet(username, pk) ==
    LET search == OdooCall("sale.order", "search_read", pk, NoVals)
        order == IF Owner(pk) = username THEN <<[id |-> pk]>> ELSE <<>>
    IN IF ~CallAccepts({"model", "method", "kwargs", "relation_fields"}) THEN Failed500
       ELSE IF order = <<>> THEN Served(404, <<search>>, order, <<>>, invoices, payments)
       ELSE Served(200, <<search>>, order, order, invoices, payments)

ExceedsResidual_by_more(amount, amount_residual) == amount > amount_residual + 1

\* amount > amount_residual
ExceedsResidual(amount, amount_residual) == amount > amount_residual

\* what follows the create: action_post and the reconciliation succeed, or a
\* later request raises
CreateOutcomes == {"registered", "raised"}

\* InvoicePaymentListAPIView.post, with the amount the serializer accepted
\* (min_value 0.01).  After the create the view posts and reconciles the
\* payment and reads the invoice again; when one of these requests raises,
\* the payment stays as created and the answer is 500.
InvoicePaymentsPost(username, invoice_id, amount, outcome) ==
    LET search == OdooCall("account.move", "search_read", invoice_id, NoVals)
        create == OdooCall("account.payment", "create", invoice_id, "amount" :> amount)
        invoice_result == SearchInvoice(username, invoice_id)
        invoice == invoice_result[1]
        kept(status) == Served(status, <<search>>, invoice_result, <<>>, invoices, payments)
    IN IF ~CallAccepts({"model", "method", "kwargs"}) THEN Failed500
       ELSE IF invoice_result = <<>> THEN kept(404)
       ELSE IF invoice.state # "posted" THEN kept(400)
       ELSE IF invoice.amount_residual = 0 THEN kept(200)
       ELSE IF ExceedsResidual(amount, invoice.amount_residual) THEN kept(400)
       ELSE IF outcome = "registered"
       THEN Served(201, <<search, create>>, invoice_result, <<>>,
                   [invoices EXCEPT
                      ![invoice_id].amount_residual =
                          IF amount <= @ THEN @ - amount ELSE 0],
                   Append(payments, [invoice_id |-> invoice_id, amount |-> amount,
                                     reconciled |-> TRUE]))
       ELSE Served(500, <<search, create>>, invoice_result, <<>>, invoices,
                   Append(payments, [invoice_id |-> invoice_id, amount |-> amount,
                                     reconciled |-> FALSE]))

\* no payment yet; every invoice is a draft
InvoiceInit ==
    /\ invoices = [i \in InvoiceIds |-> [state |-> "draft", amount_residual |-> 0]]
    /\ payments = <<>>

\* ------------------------------------------------------------------ sale orders

Products == {1, 2}          \* the ids an order line names
ListedProducts == {1}       \* the products Odoo holds

list_price(product_id) == 2

MaxQuantity == 2    \* the largest quantity of an order line
MaxDebt == 2        \* the largest sale_debt and sale_debt_limit
MaxOrders == 1      \* the sale orders Odoo holds at most

\* an order line of the request: product_id, and quantity, a FloatField
\* without a minimum
OrderLines == [product_id : Products, quantity : (-1)..MaxQuantity]

\* the order_lines of a request: none, one or two lines
OrderLinesChoices == {<<>>} \cup {<<a>> : a \in OrderLines}
                            \cup {<<a, b>> : a, b \in OrderLines}

RECURSIVE TotalAmount(_)
\* total_amount += product['list_price'] * line['quantity'], over the lines
TotalAmount(order_lines) ==
    IF order_lines = <<>> THEN 0
    ELSE list_price(order_lines[1].product_id) * order_lines[1].quantity
         + TotalAmount(Tail(order_lines))

\* the lines before the first that names a product Odoo does not hold: the
\* loop returns 404 there
RECURSIVE Validated(_)
Validated(order_lines) ==
    IF order_lines = <<>> \/ order_lines[1].product_id \notin ListedProducts THEN <<>>
    ELSE <<order_lines[1]>> \o Validated(Tail(order_lines))

OverLimit_by_more(current_debt, total_amount, debt_limit) ==
    current_debt + total_amount > debt_limit + 1

\* current_debt + total_amount > debt_limit
OverLimit(current_debt, total_amount, debt_limit) ==
    current_debt + total_amount > debt_limit

\* what OrderListAPIView.post leaves; a sale order is kept by its user_id
Ordered(status, calls, total_amount, user_info, orders_after) ==
    [status |-> status, calls |-> calls, total |-> total_amount, user_info |-> user_info,
     sale_orders |-> orders_after]

\* OrderListAPIView.post
OrderPost(username, order_lines) ==
    LET validated == Validated(order_lines)
        lookups == [k \in 1..Len(validated) |->
                       OdooCall("product.product", "search_read",
                                validated[k].product_id, NoVals)]
        total_amount == TotalAmount(validated)
        user_read == OdooCall("res.users", "search_read", 0, NoVals)
        user_info == res_users[username]
        create == OdooCall("sale.order", "create", 0, NoVals)
    IN IF Len(validated) < Len(order_lines)
       THEN Ordered(404,
                    Append(lookups, OdooCall("product.product", "search_read",
                                             order_lines[Len(validated) + 1].product_id,
                                             NoVals)),
                    total_amount, <<>>, sale_orders)
       ELSE IF OverLimit(user_info.sale_debt, total_amount, user_info.sale_debt_limit)
       THEN Ordered(400, Append(lookups, user_read), total_amount, <<user_info>>, sale_orders)
       ELSE Ordered(201, lookups \o <<user_read, create>>, total_amount, <<user_info>>,
                    Append(sale_orders, [user_id |-> username]))

\* no sale order yet, no debt and no credit
OrderInit ==
    /\ sale_orders = <<>>
    /\ res_users = [u \in Usernames |-> [sale_debt |-> 0, sale_debt_limit |-> 0]]

ApiInit == AuthInit /\ PageInit /\ ProofInit /\ InvoiceInit /\ OrderInit

\* ------------------------------------------------------------------ the behaviours

DbOf(r) ==
    IF r.model = Order
    THEN [partner_id : {0} \cup PartnerIds, partner_invoice_id : {0} \cup PartnerIds]
    ELSE [parent_id : {0} \cup PartnerIds, image_1920 : {False, JBytes(ImageText)}]

Init ==
    /\ db \in [Records -> UNION {DbOf(r) : r \in Records}]
    /\ \A r \in Records : db[r] \in DbOf(r)
    /\ exists = Records
    /\ flat = NoCall
    /\ out = NoCall
    /\ unlinks = 0
    /\ stack = <<>>
    /\ ApiInit

\* call_anything's last branch: the method returned a record, serialized with
\* the depth and relation_fields of the request
CallSerialize(record, depth, relation_fields) ==
    /\ out = NoCall
    /\ flat = NoCall
    /\ record \in exists
    /\ out' = [op |-> "serialize", record |-> record, depth |-> depth,
               relation_fields |-> relation_fields,
               result |-> Serialize(record, depth, relation_fields, AllFields)]
    /\ flat' = NoCall
    /\ UNCHANGED <<db, exists, unlinks, stack>>
    /\ UNCHANGED apivars

\* method search_read: the dict of one record, as the ORM returns it
SearchRead(record) ==
    /\ out = NoCall
    /\ flat = NoCall
    /\ record \in exists
    /\ flat' = [op |-> "search_read", record |-> record, data |-> Flatten(record)]
    /\ UNCHANGED <<db, exists, out, unlinks, stack>>
    /\ UNCHANGED apivars

AfterProcess_aliased(data_dict, result) == result

\* result = data_dict.copy(): the expanded values are stored in the copy, so
\* after the call the dict that was passed in holds what it held before
AfterProcess(data_dict, result) == data_dict

\* call_anything on a search_read/read result: each dict goes through
\* process_dict_result with the depth and relation_fields of the request
CallProcess(depth, relation_fields) ==
    /\ out = NoCall
    /\ flat # NoCall
    /\ LET result == process_dict_result(flat.data, flat.record.model, depth,
                                         relation_fields)
       IN /\ out' = [op |-> "process", record |-> flat.record, depth |-> depth,
                     relation_fields |-> relation_fields, result |-> result]
          /\ flat' = [flat EXCEPT !.data = AfterProcess(flat.data, result)]
    /\ UNCHANGED <<db, exists, unlinks, stack>>
    /\ UNCHANGED apivars

\* method unlink: the record is deleted, and every many2one that referred to
\* it is set to null (the ORM's ondelete default)
Unlink(record) ==
    /\ out = NoCall
    /\ unlinks < MaxUnlink
    /\ record \in exists
    /\ exists' = exists \ {record}
    /\ db' = [r \in Records |->
                [f \in DOMAIN db[r] |->
                    IF /\ FieldType(r.model, f) = "many2one"
                       /\ Comodel(r.model, f) = record.model
                       /\ db[r][f] = record.id
                    THEN 0 ELSE db[r][f]]]
    /\ unlinks' = unlinks + 1
    /\ UNCHANGED <<flat, out, stack>>
    /\ UNCHANGED apivars

\* ------------------------------------------------------------------ serialize_record, call by call

\* the frame of a call that passed both early returns: `i` is the field the loop
\* is at, `k` the position in the one2many/many2many being expanded (0: none),
\* `acc` the list built for it
Frame(record, depth, visited, allowed_fields) ==
    [record |-> record, depth |-> depth, visited |-> visited \cup {record_key(record)},
     allowed_fields |-> allowed_fields, i |-> 1, k |-> 0, data |-> EmptyDict, acc |-> <<>>]

\* a call returns at once when the record is empty or on the path
ReturnsAtOnce(record, visited) == ~Truthy(record) \/ OnPath(record, visited)
ValueAtOnce(record) == IF ~Truthy(record) THEN JObj(EmptyDict) ELSE ShortForm(record)

\* the frame after the value `val` was stored for the field it is at
Stored(fr, put, val) ==
    [fr EXCEPT !.i = fr.i + 1, !.k = 0, !.acc = <<>>,
               !.data = IF put THEN (FieldsOf(fr.record.model)[fr.i] :> val) @@ fr.data
                        ELSE fr.data]

\* the frame after the nested call it waited for returned `val`
Resumed(fr, val) ==
    IF fr.k = 0 THEN Stored(fr, TRUE, val)
    ELSE [fr EXCEPT !.k = fr.k + 1, !.acc = Append(fr.acc, val)]

Top == stack[Len(stack)]
Below == SubSeq(stack, 1, Len(stack) - 1)

\* a top-level serialize_record(record, depth, relation_fields) starts
Enter(record, depth, relation_fields) ==
    /\ out = NoCall
    /\ flat = NoCall
    /\ stack = <<>>
    /\ record \in exists
    /\ stack' = <<Frame(record, depth, {}, AllFields)>>
    /\ out' = [op |-> "running", record |-> record, depth |-> depth,
               relation_fields |-> relation_fields]
    /\ UNCHANGED <<db, exists, flat, unlinks>>
    /\ UNCHANGED apivars

\* the innermost call handles the field it is at: it stores a value, makes the
\* nested call of a relation, or, past the last field, returns its dict
Run ==
    /\ stack # <<>>
    /\ LET fr == Top
           fields == FieldsOf(fr.record.model)
       IN IF fr.i > Len(fields)
          THEN \* return data
               IF Len(stack) = 1
               THEN /\ stack' = <<>>
                    /\ out' = [out EXCEPT !.op = "serialize"] @@ [result |-> JObj(fr.data)]
               ELSE LET caller == stack[Len(stack) - 1]
                        back == [caller EXCEPT
                                   !.visited = AfterNestedCall(caller.visited, fr.visited)]
                    IN /\ stack' = Append(SubSeq(stack, 1, Len(stack) - 2),
                                          Resumed(back, JObj(fr.data)))
                       /\ out' = out
          ELSE LET f == fields[fr.i]
                   type == FieldType(fr.record.model, f)
                   value == Read(fr.record, f)
                   nested == Get(out.relation_fields, f)
               IN /\ out' = out
                  /\ CASE Skipped(fr.allowed_fields, f) ->
                              stack' = Append(Below, Stored(fr, FALSE, Null))
                       [] type \in BasicTypes ->
                              stack' = Append(Below, Stored(fr, TRUE, value))
                       [] type = "binary" ->
                              stack' = Append(Below, Stored(fr, TRUE, Decode(value)))
                       [] type = "many2one" ->
                              IF ~Truthy(value)
                              THEN stack' = Append(Below, Stored(fr, TRUE, Null))
                              ELSE IF ~Expands(fr.depth)
                              THEN stack' = Append(Below, Stored(fr, TRUE, ShortForm(value)))
                              ELSE IF ReturnsAtOnce(value, fr.visited)
                              THEN stack' = Append(Below, Stored(fr, TRUE, ValueAtOnce(value)))
                              ELSE stack' = Append(stack, Frame(value, fr.depth - 1,
                                                                fr.visited, nested))
                       [] type \in {"one2many", "many2many"} ->
                              IF ~Expands(fr.depth)
                              THEN stack' = Append(Below, Stored(fr, TRUE,
                                       JList([k \in 1..Len(value) |-> ShortForm(value[k])])))
                              ELSE IF fr.k = 0
                              THEN stack' = Append(Below, [fr EXCEPT !.k = 1])
                              ELSE IF fr.k > Len(value)
                              THEN stack' = Append(Below, Stored(fr, TRUE, JList(fr.acc)))
                              ELSE IF ReturnsAtOnce(value[fr.k], fr.visited)
                              THEN stack' = Append(Below,
                                                   Resumed(fr, ValueAtOnce(value[fr.k])))
                              ELSE stack' = Append(stack, Frame(value[fr.k], fr.depth - 1,
                                                                fr.visited, nested))
                       [] OTHER -> stack' = Append(Below, Stored(fr, FALSE, Null))
    /\ UNCHANGED <<db, exists, flat, unlinks>>
    /\ UNCHANGED apivars

\* call_anything returns the response; the worker takes the next request
Respond ==
    /\ out # NoCall
    /\ stack = <<>>
    /\ out' = NoCall
    /\ flat' = NoCall
    /\ UNCHANGED <<db, exists, unlinks, stack>>
    /\ UNCHANGED apivars

Next ==
    \/ \E r \in Records, d \in Depths, rf \in RelationFieldsChoices : CallSerialize(r, d, rf)
    \/ \E r \in Records : SearchRead(r)
    \/ \E d \in Depths, rf \in RelationFieldsChoices : CallProcess(d, rf)
    \/ \E r \in Records : Unlink(r)
    \/ Respond

Spec == Init /\ [][Next]_vars

\* the behaviours of one serialize_record call after another, each run call by
\* call; the interpreter never stops in the middle of a call
NextCalls ==
    \/ \E r \in Records, d \in Depths, rf \in RelationFieldsChoices : Enter(r, d, rf)
    \/ Run
    \/ Respond

\* the stores without images: a binary value does not steer the traversal
InitCalls ==
    /\ Init
    /\ \A i \in PartnerIds : db[Rec(Partner, i)]["image_1920"] = False

SpecCalls == InitCalls /\ [][NextCalls]_vars /\ WF_vars(Run)

\* ------------------------------------------------------------------ the API's behaviours

\* the projector at rest
ProjectorIdle ==
    /\ db = [r \in Records |->
                IF r.model = Order THEN [partner_id |-> 0, partner_invoice_id |-> 0]
                ELSE [parent_id |-> 0, image_1920 |-> False]]
    /\ exists = Records
    /\ flat = NoCall
    /\ out = NoCall
    /\ unlinks = 0
    /\ stack = <<>>

\* the state a handler leaves, and the response it gives
Answered(op, username, password, a) ==
    /\ a.w.issued <= MaxSessions
    /\ session_cache' = a.w.cache
    /\ odoo_sessions' = a.w.sessions
    /\ issued' = a.w.issued
    /\ login_attempts' = [login_attempts EXCEPT ![username] = a.attempts]
    /\ local_password' = [local_password EXCEPT ![username] = a.password]
    /\ resp' = [op |-> op, username |-> username, password |-> password,
                status |-> a.status, tokens |-> a.tokens, log |-> a.w.log]

\* POST login/ with a username and a password
Login(username, password) ==
    /\ resp = NoRequest
    /\ Answered("login", username, password, LoginPost(username, password))
    /\ UNCHANGED BesidesAuth

\* a request with the JWT of a local user to a view that calls Odoo
View(username) ==
    /\ resp = NoRequest
    /\ local_password[username] # NoEntry
    /\ Answered("view", username, "", ViewGet(username))
    /\ UNCHANGED BesidesAuth

\* logout() on a client that holds the user's cached session
Logout(username, outcome) ==
    /\ resp = NoRequest
    /\ session_cache[username] # NoEntry
    /\ LET client == Client(username, "", session_cache[username][1])
           done == ClientLogout(World, client, outcome)
       IN Answered("logout", username, "",
                   Answer(0, FALSE, done.w, login_attempts[username],
                          local_password[username]))
    /\ UNCHANGED BesidesAuth

\* Odoo drops a session (its lifetime ended, or the user's password changed)
OdooSessionExpires(session_id) ==
    /\ resp = NoRequest
    /\ session_id \in odoo_sessions
    /\ odoo_sessions' = odoo_sessions \ {session_id}
    /\ UNCHANGED <<session_cache, login_attempts, issued, local_password, resp>>
    /\ UNCHANGED BesidesAuth

\* the cache entry of a session reaches its timeout of 3600 s
CacheExpires(username) ==
    /\ resp = NoRequest
    /\ session_cache[username] # NoEntry
    /\ session_cache' = [session_cache EXCEPT ![username] = NoEntry]
    /\ UNCHANGED <<login_attempts, odoo_sessions, issued, local_password, resp>>
    /\ UNCHANGED BesidesAuth

\* the count of failed logins reaches its timeout of 300 s
AttemptsExpire(username) ==
    /\ resp = NoRequest
    /\ login_attempts[username] # NoEntry
    /\ login_attempts' = [login_attempts EXCEPT ![username] = NoEntry]
    /\ UNCHANGED <<session_cache, odoo_sessions, issued, local_password, resp>>
    /\ UNCHANGED BesidesAuth

\* the response is sent; the worker takes the next request
Reply ==
    /\ resp # NoRequest
    /\ resp' = NoRequest
    /\ UNCHANGED <<session_cache, login_attempts, odoo_sessions, issued, local_password>>
    /\ UNCHANGED BesidesAuth

InitAuth == ProjectorIdle /\ ApiInit

\* a request to /custom_api/call as any client of Odoo sends it
CallAnything(method, limit, offset, total) ==
    /\ page = NoCall
    /\ page' = [op |-> "call", method |-> method, limit |-> limit, offset |-> offset,
                total |-> total,
                response |-> call_anything(method, limit, offset, total)]
    /\ UNCHANGED BesidesPage

\* the same request sent through OdooRESTClient.call(limit=, offset=)
CallThroughClient(method, limit, offset, total) ==
    /\ page = NoCall
    /\ LET payload == Payload(limit, offset)
       IN page' = [op |-> "call", method |-> method, limit |-> payload.limit,
                   offset |-> payload.offset, total |-> total,
                   response |-> call_anything(method, payload.limit, payload.offset,
                                              total)]
    /\ UNCHANGED BesidesPage

\* the response is returned
PageReturned ==
    /\ page # NoCall
    /\ page' = NoCall
    /\ UNCHANGED BesidesPage

InitPage == ProjectorIdle /\ ApiInit

NextPage ==
    \/ \E m \in Methods, l \in Limits, o \in Offsets, n \in 0..MaxTotal :
          CallAnything(m, l, o, n)
    \/ \E m \in Methods, l \in Limits, o \in Offsets, n \in 0..MaxTotal :
          CallThroughClient(m, l, o, n)
    \/ PageReturned

SpecPage == InitPage /\ [][NextPage]_vars

NextAuth ==
    \/ \E u \in Usernames, p \in Passwords : Login(u, p)
    \/ \E u \in Usernames : View(u)
    \/ \E u \in Usernames, o \in DestroyOutcomes : Logout(u, o)
    \/ \E s \in 1..MaxSessions : OdooSessionExpires(s)
    \/ \E u \in Usernames : CacheExpires(u)
    \/ \E u \in Usernames : AttemptsExpire(u)
    \/ Reply

SpecAuth == InitAuth /\ [][NextAuth]_vars

\* ------------------------------------------------------------------ the views of payment proofs

\* both users have logged in: each has a local account and a cached session
\* that Odoo accepts
SessionOf(username) == IF username = "ali" THEN 1 ELSE 2

LoggedIn ==
    /\ session_cache = [u \in Usernames |-> <<SessionOf(u)>>]
    /\ odoo_sessions = {SessionOf(u) : u \in Usernames}
    /\ issued = Cardinality(Usernames)
    /\ login_attempts = [u \in Usernames |-> NoEntry]
    /\ local_password = [u \in Usernames |-> <<"right">>]
    /\ resp = NoRequest

\* get_odoo_client_with_cached_session(username) returns a client, and Odoo
\* accepts its session
HasSession(username) ==
    /\ local_password[username] # NoEntry
    /\ session_cache[username] # NoEntry
    /\ session_cache[username][1] \in odoo_sessions

\* a view of payment proofs answers a request of `username` about `proof_id`
ProofView(op, username, proof_id, update_vals, done) ==
    /\ resp = NoRequest
    /\ HasSession(username)
    /\ proofs' = done.proofs
    /\ resp' = [op |-> op, username |-> username, id |-> proof_id, vals |-> update_vals,
                status |-> done.status, calls |-> done.calls, read |-> done.read]
    /\ UNCHANGED BesidesProofs

PutProof(username, proof_id, update_vals) ==
    ProofView("proof_put", username, proof_id, update_vals,
              ProofPut(username, proof_id, update_vals))

DeleteProof(username, proof_id) ==
    ProofView("proof_delete", username, proof_id, NoVals, ProofDelete(username, proof_id))

SubmitProof(username, proof_id) ==
    ProofView("proof_submit", username, proof_id, NoVals, ProofSubmit(username, proof_id))

\* in Odoo, an accountant verifies a proof: action_verify
VerifyProof(proof_id) ==
    /\ resp = NoRequest
    /\ proofs[proof_id].exists
    /\ proofs[proof_id].state \in {"draft", "submitted"}
    /\ proofs' = [proofs EXCEPT ![proof_id].state = "verified"]
    /\ UNCHANGED <<BesidesProofs, resp>>

\* action_reject
RejectProof(proof_id) ==
    /\ resp = NoRequest
    /\ proofs[proof_id].exists
    /\ proofs[proof_id].state \in {"draft", "submitted", "verified"}
    /\ proofs' = [proofs EXCEPT ![proof_id].state = "rejected"]
    /\ UNCHANGED <<BesidesProofs, resp>>

\* action_create_invoice, which ends with state 'processed'
ProcessProof(proof_id) ==
    /\ resp = NoRequest
    /\ proofs[proof_id].exists
    /\ proofs[proof_id].state = "verified"
    /\ proofs' = [proofs EXCEPT ![proof_id].state = "processed"]
    /\ UNCHANGED <<BesidesProofs, resp>>

\* the response is sent
ProofReply ==
    /\ resp # NoRequest
    /\ resp' = NoRequest
    /\ UNCHANGED <<BesidesProofs, proofs>>

\* each user has one proof, a draft, with or without an image; the amount is
\* positive wherever the table has its CHECK(amount > 0), and 0 otherwise
InitProof ==
    /\ ProjectorIdle
    /\ LoggedIn
    /\ PageInit
    /\ InvoiceInit
    /\ OrderInit
    /\ proofs \in [ProofIds -> [exists : {TRUE}, state : {"draft"}, proof_image : BOOLEAN,
                               amount : 0..MaxAmount]]

NextProof ==
    \/ \E u \in Usernames, i \in ProofIds, v \in UpdateChoices : PutProof(u, i, v)
    \/ \E u \in Usernames, i \in ProofIds : DeleteProof(u, i)
    \/ \E u \in Usernames, i \in ProofIds : SubmitProof(u, i)
    \/ \E i \in ProofIds : VerifyProof(i)
    \/ \E i \in ProofIds : RejectProof(i)
    \/ \E i \in ProofIds : ProcessProof(i)
    \/ ProofReply

SpecProof == InitProof /\ [][NextProof]_vars

\* ------------------------------------------------------------------ the views of invoices and payments

PaymentIds == 1..MaxPayments

\* a view of invoices answers a request of `username` about the record `id`
InvoiceView(op, username, id, amount, served) ==
    /\ resp = NoRequest
    /\ HasSession(username)
    /\ Len(served.payments) <= MaxPayments
    /\ invoices' = served.invoices
    /\ payments' = served.payments
    /\ resp' = [op |-> op, username |-> username, id |-> id, amount |-> amount,
                status |-> served.status, calls |-> served.calls, read |-> served.read,
                body |-> served.body]
    /\ UNCHANGED BesidesInvoices

GetInvoice(username, invoice_id) ==
    InvoiceView("invoice_get", username, invoice_id, 0, InvoiceGet(username, invoice_id))

GetInvoicePayments(username, invoice_id) ==
    InvoiceView("invoice_payments_get", username, invoice_id, 0,
                InvoicePaymentsGet(username, invoice_id))

GetPayment(username, payment_id) ==
    InvoiceView("payment_get", username, payment_id, 0, PaymentGet(username, payment_id))

GetOrder(username, pk) ==
    InvoiceView("order_get", username, pk, 0, OrderGet(username, pk))

PostInvoicePayment(username, invoice_id, amount, outcome) ==
    InvoiceView("invoice_payments_post", username, invoice_id, amount,
                InvoicePaymentsPost(username, invoice_id, amount, outcome))

\* the response of a view of invoices or of orders is sent
SalesReply ==
    /\ resp # NoRequest
    /\ resp' = NoRequest
    /\ UNCHANGED <<BesidesInvoices, invoicevars>>

\* each user has one invoice, in any state and with any outstanding amount
InitInvoice ==
    /\ ProjectorIdle
    /\ LoggedIn
    /\ PageInit
    /\ ProofInit
    /\ OrderInit
    /\ invoices \in [InvoiceIds -> [state : InvoiceStates, amount_residual : 0..MaxResidual]]
    /\ payments = <<>>

NextInvoice ==
    \/ \E u \in Usernames, i \in InvoiceIds : GetInvoice(u, i)
    \/ \E u \in Usernames, i \in InvoiceIds : GetInvoicePayments(u, i)
    \/ \E u \in Usernames, i \in PaymentIds : GetPayment(u, i)
    \/ \E u \in Usernames, i \in InvoiceIds : GetOrder(u, i)
    \/ \E u \in Usernames, i \in InvoiceIds, a \in 1..(MaxResidual + 1), o \in CreateOutcomes :
          PostInvoicePayment(u, i, a, o)
    \/ SalesReply

SpecInvoice == InitInvoice /\ [][NextInvoice]_vars

\* ------------------------------------------------------------------ the view of sale orders

\* OrderListAPIView.post answers a request of `username`
PostOrder(username, order_lines) ==
    LET ordered == OrderPost(username, order_lines) IN
    /\ resp = NoRequest
    /\ HasSession(username)
    /\ Len(ordered.sale_orders) <= MaxOrders
    /\ sale_orders' = ordered.sale_orders
    /\ resp' = [op |-> "order_post", username |-> username, order_lines |-> order_lines,
                status |-> ordered.status, calls |-> ordered.calls,
                user_info |-> ordered.user_info]
    /\ UNCHANGED <<BesidesOrders, res_users>>

\* in Odoo the user's sale_debt is computed again (_compute_debt_amount) and
\* an administrator sets sale_debt_limit
SetDebt(username, sale_debt, sale_debt_limit) ==
    /\ resp = NoRequest
    /\ res_users' = [res_users EXCEPT ![username] =
                        [sale_debt |-> sale_debt, sale_debt_limit |-> sale_debt_limit]]
    /\ UNCHANGED <<BesidesOrders, sale_orders, resp>>

InitOrder ==
    /\ ProjectorIdle
    /\ LoggedIn
    /\ PageInit
    /\ ProofInit
    /\ InvoiceInit
    /\ OrderInit

NextOrder ==
    \/ \E u \in Usernames, l \in OrderLinesChoices : PostOrder(u, l)
    \/ \E u \in Usernames, d \in 0..MaxDebt, l \in 0..MaxDebt : SetDebt(u, d, l)
    \/ SalesReply

SpecOrder == InitOrder /\ [][NextOrder]_vars

\* ------------------------------------------------------------------ claims

IsPrefix(p, q) == Len(p) <= Len(q) /\ SubSeq(q, 1, Len(p)) = p

\* two occurrences of one record in different branches of the output
Diamond(s, t) ==
    /\ s.rec = t.rec
    /\ ~IsPrefix(s.path, t.path)
    /\ ~IsPrefix(t.path, s.path)

\* the frames serialize_record(depth) can have open at once
MaxFrames(depth) == (IF depth > 0 THEN depth ELSE 0) + 1

\* C1: every serialize_record call returns, with never more than depth+1 calls
\* open (one when depth <= 0), and what it returns is the value the recursive
\* definition gives, nested no deeper than depth+2 objects.
SerializeTerminates ==
    /\ (out.op = "running") ~> (out.op = "serialize")
    /\ [](out.op = "running" => Len(stack) <= MaxFrames(out.depth))
    /\ [](out.op = "serialize" =>
            /\ out.result = Serialize(out.record, out.depth, out.relation_fields, AllFields)
            /\ Nesting(out.result) <= MaxFrames(out.depth) + 1)

\* a call on a record that lies on a cycle of three records, run to its end
\* through nested calls
SerializeTerminatesWitness ==
    /\ out.op = "serialize" /\ out.depth = MaxDepth
    /\ out.record = Rec(Order, 1)
    /\ db[Rec(Order, 1)]["partner_id"] = 1
    /\ db[Rec(Order, 1)]["partner_invoice_id"] = 2
    /\ db[Rec(Partner, 2)]["parent_id"] = 1
    /\ db[Rec(Partner, 1)]["parent_id"] = 1
    /\ Nesting(out.result) = MaxDepth + 2

\* C2: a related record that is already on the path above it is emitted as
\* {id, display name} and nothing of it is expanded.
CycleGuardShortForm ==
    \A s \in Sites : OnOwnPath(s) => s.val = ShortForm(s.rec)

\* a record met again on its own path while depth was left to expand it
CycleGuardWitness ==
    \E s \in Sites : OnOwnPath(s) /\ s.budget >= 0 /\ s.hops >= 2
                     /\ s.val = ShortForm(s.rec)

\* C3 as claimed: with depth d >= 0, every related record at most d hops from the
\* root is a full object, every one at hop d+1 is {id, display name}, and there
\* is none beyond hop d+1.
DepthBoundAsClaimed ==
    (out.op = "serialize" /\ out.depth >= 0) =>
        \A s \in Sites :
            /\ s.hops <= out.depth =>
                  IsFull(s.val, s.rec, KeysOf(s.rec, out.relation_fields, s.via))
            /\ s.hops = out.depth + 1 => s.val = ShortForm(s.rec)
            /\ s.hops <= out.depth + 1

\* C3 amended: the same, except that a record at most d hops from the root that
\* is on the path above it is {id, display name} too.
DepthBound ==
    (out.op = "serialize" /\ out.depth >= 0) =>
        /\ Nesting(out.result) <= out.depth + 2
        /\ \A s \in Sites :
            /\ (s.hops <= out.depth /\ ~OnOwnPath(s)) =>
                  IsFull(s.val, s.rec, KeysOf(s.rec, out.relation_fields, s.via))
            /\ (s.hops = out.depth + 1 \/ OnOwnPath(s)) => s.val = ShortForm(s.rec)
            /\ s.hops <= out.depth + 1

\* depth d >= 1: a full object at hop d, a short form at hop d+1 of a record
\* that is not on its path, and a record on its own path within d hops
DepthBoundWitness ==
    /\ out.op = "serialize" /\ out.depth >= 1
    /\ \E s \in Sites : s.hops = out.depth /\ ~OnOwnPath(s) /\ s.val # ShortForm(s.rec)
    /\ \E s \in Sites : s.hops = out.depth + 1 /\ ~OnOwnPath(s) /\ s.val = ShortForm(s.rec)
    /\ \E s \in Sites : s.hops <= out.depth /\ OnOwnPath(s)

FlatIsCurrent == flat.record \in exists /\ flat.data = Flatten(flat.record)

EmptyString == JStr(<<"image", "", 0>>)

\* C6 (the related records, at the depths >= 1): what process_dict_result puts
\* under each relation field of the flattened record is what serialize_record
\* puts there for the record itself, with the same depth and relation_fields.
FlatFullEquivalence ==
    (out.op = "process" /\ out.depth >= 1 /\ FlatIsCurrent) =>
        \A f \in RelationFieldsOf(out.record.model) :
            PyTruthy(flat.data.v[f]) =>
                out.result.v[f] =
                    Serialize(out.record, out.depth, out.relation_fields, AllFields).v[f]

\* C7: a many2one that is false in the flat dict comes out null, an empty
\* one2many/many2many comes out [].
EmptyRelationEmitsNull ==
    out.op = "process" =>
        \A f \in RelationFieldsOf(out.record.model) \cap DOMAIN flat.data.v :
            ~PyTruthy(flat.data.v[f]) =>
                IF FieldType(out.record.model, f) = "many2one"
                THEN out.result.v[f] = Null
                ELSE out.result.v[f] = JList(<<>>)

\* the ids of a flat list value, and those of them that exist
FlatIds(value) == [k \in 1..Len(value.v) |-> value.v[k].v]
Stale(m, f) ==
    LET value == flat.data.v[f]
        co == Comodel(m, f)
    IN IF FieldType(m, f) = "many2one"
       THEN PyTruthy(value) /\ Rec(co, value.v[1].v) \notin exists
       ELSE \E k \in 1..Len(value.v) : Rec(co, value.v[k].v) \notin exists

\* what the claim asks of a process_dict_result output for the field f
StaleHandled(m, f) ==
    LET value == flat.data.v[f]
        co == Comodel(m, f)
        type == FieldType(m, f)
    IN CASE type = "many2one" /\ Stale(m, f) -> out.result.v[f] = Null
         [] type = "one2many" /\ Stale(m, f) ->
                LET kept == SelectSeq(FlatIds(value), LAMBDA i : Rec(co, i) \in exists)
                IN /\ out.result.v[f].t = "list"
                   /\ Len(out.result.v[f].v) = Len(kept)
                   /\ \A k \in 1..Len(kept) :
                         out.result.v[f].v[k] =
                             Serialize(Rec(co, kept[k]), out.depth - 1, out.relation_fields,
                                       Get(out.relation_fields, f))
         [] type \in BasicTypes -> out.result.v[f] = value
         [] OTHER -> TRUE

\* C8 (for the depths >= 0): a stale many2one comes out null, the stale ids of
\* a list are left out and the others kept in order, the other fields are
\* there.
StaleReferenceAsClaimed ==
    (out.op = "process" /\ out.depth >= 0) =>
        /\ DOMAIN out.result.v = DOMAIN flat.data.v
        /\ \A f \in DOMAIN flat.data.v : StaleHandled(out.record.model, f)

\* what C8 asks holds of the calls with depth >= 1, which pass the early return
StaleReference ==
    (out.op = "process" /\ out.depth >= 1) =>
        /\ DOMAIN out.result.v = DOMAIN flat.data.v
        /\ \A f \in DOMAIN flat.data.v : StaleHandled(out.record.model, f)

\* a record was read and then its parent, or one of its two children, deleted
StaleReferenceWitness ==
    /\ out.op = "process" /\ out.depth >= 1
    /\ \E f \in {"parent_id", "partner_id"} \cap DOMAIN flat.data.v :
          Stale(out.record.model, f) /\ out.result.v[f] = Null
    /\ \E f \in {"child_ids"} \cap DOMAIN flat.data.v :
          /\ Stale(out.record.model, f)
          /\ Len(flat.data.v[f].v) = 2
          /\ Len(out.result.v[f].v) = 1

\* C9: a binary field without a value comes out as the empty string, at the
\* top of the output and in every nested object.
BinaryNormalized ==
    out.op \in {"serialize", "process"} =>
        /\ \A s \in Sites :
              ("image_1920" \in DOMAIN s.val.v /\ db[s.rec]["image_1920"] = False) =>
                  s.val.v["image_1920"] = EmptyString
        /\ (/\ out.op = "process"
            /\ "image_1920" \in DOMAIN flat.data.v
            /\ flat.data.v["image_1920"] = False) =>
               out.result.v["image_1920"] = EmptyString

\* C10: a negative depth returns what depth 0 returns, and no related record
\* is a full object.
NegativeDepthIsZero ==
    (out.op \in {"serialize", "process"} /\ out.depth < 0) =>
        /\ out.op = "serialize" =>
              /\ out.result = Serialize(out.record, 0, out.relation_fields, AllFields)
              /\ \A s \in Sites : s.hops >= 1 => s.val = ShortForm(s.rec)
              /\ Nesting(out.result) <= 2
        /\ out.op = "process" =>
              /\ out.result = process_dict_result(flat.data, out.record.model, 0,
                                                  out.relation_fields)
              /\ out.result = flat.data

\* a negative depth on a record with a many2one and a one2many to emit
NegativeDepthWitness ==
    /\ out.op = "serialize" /\ out.depth < 0
    /\ out.record.model = Partner
    /\ out.result.v["parent_id"] # Null
    /\ Len(out.result.v["child_ids"].v) >= 1

\* a dict as search_read returns it: no value is an object, no list holds one
IsFlatDict(data) ==
    /\ data.t = "obj"
    /\ \A f \in DOMAIN data.v :
          /\ data.v[f].t # "obj"
          /\ data.v[f].t = "list" => \A k \in 1..Len(data.v[f].v) : data.v[f].v[k].t # "obj"

Handles(op) == resp = NoRequest /\ resp'.op = op

\* C12: a login whose password Odoo would not accept gets no JWT tokens and
\* leaves the local user's password as it was, and is answered 403 (unless the
\* rate limit or the validation of the input answers before), whatever the
\* session cache holds.
LoginAuthenticates ==
    [][(Handles("login") /\ ~OdooAccepts(resp'.username, resp'.password)) =>
          /\ ~resp'.tokens
          /\ local_password' = local_password
          /\ resp'.status \in {403, 429, 400}
          /\ (/\ ~TooMany(CacheGet(login_attempts[resp'.username], 0))
              /\ resp'.password # "") => resp'.status = 403
      ]_vars

\* C13: a login for a username whose count of failed attempts is 5 or more is
\* answered 429, sends nothing to Odoo and changes nothing, whatever password
\* it carries; a login answered 200 leaves no count for its username.
LoginRateLimit ==
    [][Handles("login") =>
          /\ CacheGet(login_attempts[resp'.username], 0) >= 5 =>
                /\ resp'.status = 429
                /\ resp'.log = <<>>
                /\ ~resp'.tokens
                /\ UNCHANGED <<session_cache, login_attempts, odoo_sessions, issued,
                               local_password>>
          /\ resp'.status = 200 => login_attempts'[resp'.username] = NoEntry
      ]_vars

\* the sixth login of a user, with the password Odoo accepts, is turned away
\* while the other user, who failed before, has logged in and has no count
LoginRateLimitWitness ==
    /\ resp.op = "login" /\ resp.status = 429 /\ resp.password = "right"
    /\ resp.log = <<>>
    /\ login_attempts[resp.username] = <<5>>
    /\ \E u \in Usernames \ {resp.username} :
          /\ login_attempts[u] = NoEntry
          /\ local_password[u] = <<"right">>
          /\ session_cache[u] # NoEntry

\* the requests to /custom_api/call among those a handler sent
CallsOf(log) == SelectSeq(log, LAMBDA r : r.req = "call")

\* C14: when the first call of a handler (a view's, whose client comes from the
\* cached session, or that of a login with the password Odoo accepts) goes out
\* under a session that Odoo issued before and no longer accepts, the client
\* logs in again, the cache holds the new session,
\* which Odoo accepts, the call is sent again under it, and the handler gets
\* its result (status 200).
SessionRefresh ==
    [][(/\ resp = NoRequest
        /\ \/ resp'.op = "view"
           \/ resp'.op = "login" /\ OdooAccepts(resp'.username, resp'.password)
        /\ CallsOf(resp'.log) # <<>>
        /\ CallsOf(resp'.log)[1].session_id \in (1..issued) \ odoo_sessions) =>
          LET u == resp'.username
              calls == CallsOf(resp'.log)
          IN /\ session_cache'[u] # NoEntry
             /\ session_cache'[u] # session_cache[u]
             /\ session_cache'[u][1] \in odoo_sessions'
             /\ Len(calls) = 2
             /\ calls[2].session_id = session_cache'[u][1]
             /\ resp'.status = 200
      ]_vars

\* C20: after logout, whatever became of the session-destroy request, the
\* cache holds no session under the client's key.
LogoutClearsCache ==
    [][Handles("logout") => session_cache'[resp'.username] = NoEntry]_vars

\* the search requests that carry a limit
Paged == page.op = "call" /\ page.method \in {"search_read", "search"}
         /\ page.limit # NoEntry

\* C15: the response to a search_read/search that carries a limit has
\* total_count, limit, offset and has_more, whatever the number of matching
\* records, and has_more is true exactly when offset + limit < total_count.
PaginationMetadata ==
    Paged =>
        /\ {"total_count", "limit", "offset", "has_more"} \subseteq DOMAIN page.response
        /\ page.response["total_count"] = JInt(page.total)
        /\ page.response["limit"] = JInt(page.limit[1])
        /\ page.offset # NoEntry => page.response["offset"] = JInt(page.offset[1])
        /\ page.response["has_more"] =
              JBool(page.response["offset"].v + page.limit[1] < page.total)

\* what C15 asks holds of the searches that match two records or more
PaginationMetadataOverOne ==
    (Paged /\ page.total > 1) =>
        /\ {"total_count", "limit", "offset", "has_more"} \subseteq DOMAIN page.response
        /\ page.response["total_count"] = JInt(page.total)
        /\ page.response["limit"] = JInt(page.limit[1])
        /\ page.offset # NoEntry => page.response["offset"] = JInt(page.offset[1])
        /\ page.response["has_more"] =
              JBool(page.response["offset"].v + page.limit[1] < page.total)

\* the requests of a kind among those a view sent to Odoo
Sends(methods) == \E k \in 1..Len(resp.calls) : resp.calls[k].method \in methods

\* C16: put writes only when the state it read is draft or submitted, delete
\* unlinks only when it is draft, submit writes {state: submitted} only when it
\* is draft and the proof read has an image and an amount > 0; when the proof
\* read does not allow the operation the answer is 400 and neither a write nor
\* an unlink is sent.
ProofEditWindows ==
    resp.op \in {"proof_put", "proof_delete", "proof_submit"} =>
        LET allowed ==
              /\ resp.read # <<>>
              /\ CASE resp.op = "proof_put" -> resp.read[1].state \in {"draft", "submitted"}
                   [] resp.op = "proof_delete" -> resp.read[1].state = "draft"
                   [] resp.op = "proof_submit" ->
                        /\ resp.read[1].state = "draft"
                        /\ resp.read[1].proof_image
                        /\ resp.read[1].amount > 0
        IN /\ Sends({"write", "unlink", "create"}) => allowed
           /\ (resp.read # <<>> /\ ~allowed) => resp.status = 400
           /\ \A k \in 1..Len(resp.calls) :
                 LET c == resp.calls[k] IN
                 /\ c.method \in {"search_read", "write", "unlink"}
                 /\ c.method = "write" => resp.op \in {"proof_put", "proof_submit"}
                 /\ c.method = "unlink" => resp.op = "proof_delete"
                 /\ (c.method = "write" /\ resp.op = "proof_submit") =>
                       c.vals = "state" :> "submitted"
                 /\ c.method # "search_read" => c.id = resp.id

\* a submitted proof is not deleted, though the user's draft was submitted by
\* the API before; the other user's proof was deleted as a draft
ProofEditWindowsWitness ==
    /\ resp.op = "proof_delete" /\ resp.status = 400
    /\ resp.read # <<>> /\ resp.read[1].state = "submitted"
    /\ proofs[resp.id].exists
    /\ \E i \in ProofIds \ {resp.id} : ~proofs[i].exists

\* the record a request names belongs to another user
NamesForeignRecord ==
    IF resp.op = "payment_get"
    THEN /\ resp.id \in 1..Len(payments)
         /\ Owner(payments[resp.id].invoice_id) # resp.username
    ELSE Owner(resp.id) # resp.username

\* C17: a request of the invoice, payment and order views that names a record
\* of another user is answered 404, with none of the record's data in the
\* body and no create sent.
OwnershipIsolation ==
    (/\ resp.op \in {"invoice_get", "invoice_payments_get", "payment_get", "order_get",
                     "invoice_payments_post"}
     /\ NamesForeignRecord) =>
        /\ resp.status = 404
        /\ resp.body = <<>>
        /\ ~Sends({"create", "write", "unlink"})

\* C18: InvoicePaymentListAPIView.post sends a create only when the invoice it
\* read is posted, its outstanding amount is not 0 and the requested amount is
\* at most that amount; for an invoice read that does not allow it the answer
\* is 400, or 200 when the outstanding amount is 0, and no create is sent; when
\* no invoice of the user is found the answer is 404 and no create is sent.
PaymentOnlyWhenOwed ==
    resp.op = "invoice_payments_post" =>
        LET allowed ==
              /\ resp.read # <<>>
              /\ resp.read[1].state = "posted"
              /\ resp.read[1].amount_residual # 0
              /\ resp.amount <= resp.read[1].amount_residual
        IN /\ Sends({"create"}) => allowed
           /\ (resp.read # <<>> /\ ~allowed) =>
                 \/ resp.status = 400
                 \/ resp.status = 200 /\ resp.read[1].amount_residual = 0
           /\ resp.read = <<>> => resp.status = 404

\* a payment over the outstanding amount of a posted invoice is refused, after
\* an earlier payment reduced that amount
PaymentOnlyWhenOwedWitness ==
    /\ resp.op = "invoice_payments_post" /\ resp.status = 400
    /\ resp.read # <<>> /\ resp.read[1].state = "posted"
    /\ resp.read[1].amount_residual > 0
    /\ resp.amount > resp.read[1].amount_residual
    /\ \E k \in 1..Len(payments) : payments[k].invoice_id = resp.id /\ payments[k].reconciled

RECURSIVE OrderTotal(_)
\* the sum of list_price x quantity over the lines of an order
OrderTotal(order_lines) ==
    IF order_lines = <<>> THEN 0
    ELSE list_price(Head(order_lines).product_id) * Head(order_lines).quantity
         + OrderTotal(Tail(order_lines))

DebtLimitMissingProduct ==
    /\ resp.op = "order_post" /\ resp.status = 404
    /\ Len(resp.order_lines) = 2
    /\ resp.order_lines[1].product_id \in ListedProducts
    /\ Len(resp.calls) = 2

====
